---- MODULE Spec2Model ----
(***************************************************************************)
(* The appointment / payment consistency engine of the MindWell backend:   *)
(* the Appointment and Payment collections, the calendar settings         *)
(* overrides, and the request handlers that read and write them.           *)
(*                                                                         *)
(* Every handler is cut at its awaits into steps, one per store access.    *)
(* A step is an operator from the world (the collections, the handlers in  *)
(* flight, the responses) to the world after it.                           *)
(*   Spec      a request runs all its steps before the next one arrives    *)
(*   SpecConc  two requests in flight, interleaved at every await          *)
(***************************************************************************)
EXTENDS Naturals, Integers, Sequences, FiniteSets, TLC

(***************************** bounds *************************************)
\* documents the Appointment collection can hold (ids are never reused)
MaxAppointments == 2
\* documents the Payment collection can hold
MaxPayments == 2
\* readings of the wall clock taken by verifyPayment
MaxClock == 2
\* requests served in one run
MaxRequests == 4

(************************* program constants ******************************)
\* Payment.js: verificationNotes / rejectedReason maxlength
MaxTextLen == 500
\* paymentController.js rejectPayment: reason.trim().length < 5
MinReasonLen == 5
\* CalendarSettings: maxAppointments default
DefaultMaxAppointments == 8

AppIds == 1..MaxAppointments
PayIds == 1..MaxPayments
\* request slots: at most two handlers are in flight at a time
Reqs == {1, 2}

\* the calendar days of one week: 2024-06-10 is a Monday, 2024-06-15 a
\* Saturday, 2024-06-16 a Sunday
Week ==
    << "2024-06-10", "2024-06-11", "2024-06-12", "2024-06-13", "2024-06-14",
       "2024-06-15", "2024-06-16" >>
Dates == {Week[i] : i \in 1..Len(Week)}
\* the instants a CalendarSettings date can hold, in ascending order: the
\* midnight of each day, written as the day, and ten o'clock of the Monday
Instants ==
    << "2024-06-10", "2024-06-10T10:00:00Z", "2024-06-11", "2024-06-12",
       "2024-06-13", "2024-06-14", "2024-06-15", "2024-06-16" >>
\* the position of an instant on the time line of the model
InstantIndex(instant) == CHOOSE i \in 1..Len(Instants) : Instants[i] = instant
\* date.toISOString().split('T')[0]: the calendar day an instant falls on
DayOf(instant) == IF instant = "2024-06-10T10:00:00Z" THEN "2024-06-10" ELSE instant
\* getAvailableSlots: allSlots, in the order the code lists them
AllSlots == <<"09:00", "10:00", "11:00", "14:00", "15:00", "16:00">>
\* appointmentSchema.appointmentTime enum
Times == {AllSlots[i] : i \in 1..Len(AllSlots)}
Statuses == {"pending", "confirmed", "cancelled", "completed"}
PaymentStatuses == {"pending", "paid", "verified", "failed"}

\* the id field of a document that carries no reference
NoId == 0
\* a document slot never written / a deleted document
NoDoc == [exists |-> FALSE, deleted |-> FALSE]
Deleted == [exists |-> FALSE, deleted |-> TRUE]
Idle == [pc |-> "idle"]
NoResp == [op |-> "none", outcome |-> "none", id |-> NoId, conc |-> FALSE, mail |-> <<>>]
\* how the mail transport and the audit log behave while a request is served
Mailers ==
    {"sends", "absent", "send_error", "hangs",
     "log_error", "absent_log_error", "send_error_log_error"}

\* a request-body field that may be absent
Has(body, f) == f \in DOMAIN body
Get(body, f, default) == IF f \in DOMAIN body THEN body[f] ELSE default

VARIABLES appointments, payments, calendar, req, resp, now, served

vars == <<appointments, payments, calendar, req, resp, now, served>>

Init ==
    /\ appointments = [i \in AppIds |-> NoDoc]
    /\ payments = [i \in PayIds |-> NoDoc]
    /\ calendar = [s \in {Instants[i] : i \in 1..Len(Instants)} |-> NoDoc]
    /\ req = [r \in Reqs |-> Idle]
    /\ resp = [r \in Reqs |-> NoResp]
    /\ now = 0
    /\ served = 0

\* the world as one value, and the step that installs a world
World ==
    [appointments |-> appointments, payments |-> payments, calendar |-> calendar,
     req |-> req, resp |-> resp, now |-> now, mailer |-> "sends"]

\* the world of a request served under a given behaviour of the mailer
WorldWith(mailer) == [World EXCEPT !.mailer = mailer]

Install(w) ==
    /\ appointments' = w.appointments
    /\ payments' = w.payments
    /\ calendar' = w.calendar
    /\ req' = w.req
    /\ resp' = w.resp
    /\ now' = w.now

\* a step of a request in flight / the first step of a new request
Commit(w) == Install(w) /\ UNCHANGED served
Serve(w) == served < MaxRequests /\ served' = served + 1 /\ Install(w)

(*************************** the store ************************************)
InFlight(r) == req[r].pc # "idle"

\* Model.findById
FindById(coll, id) == IF id \in DOMAIN coll /\ coll[id].exists THEN coll[id] ELSE NoDoc

\* the _id Model.create gives the next document
FreshId(coll) == CHOOSE i \in DOMAIN coll :
    /\ coll[i] = NoDoc
    /\ \A j \in DOMAIN coll : coll[j] = NoDoc => i <= j

\* the handlers in flight that will still insert a document, and the room left
Pending(pcs) == Cardinality({r \in Reqs : req[r].pc \in pcs})
Unused(coll) == Cardinality({i \in DOMAIN coll : coll[i] = NoDoc})

\* document.save(): only the paths whose value differs from the loaded
\* document are written
SaveDoc(current, loaded, changes) ==
    [f \in DOMAIN current |->
        IF f \in DOMAIN changes /\ changes[f] # loaded[f] THEN changes[f] ELSE current[f]]

(************************** responses *************************************)
\* the handler of slot r answers and ends
Respond(w, r, op, outcome, id) ==
    [w EXCEPT !.req[r] = Idle,
              !.resp[r] = [op |-> op, outcome |-> outcome, id |-> id,
                           conc |-> IF w.req[r].pc # "idle" THEN w.req[r].conc ELSE FALSE,
                           mail |-> <<>>]]

(*************************** notifications ********************************)
\* whether the writes of an operation on document id are in the store
Written(w, op, id) ==
    LET payment == FindById(w.payments, id)
        appointment ==
            IF op = "create" THEN FindById(w.appointments, id)
            ELSE IF payment.exists THEN FindById(w.appointments, payment.appointmentId)
            ELSE NoDoc
    IN CASE op = "create" -> appointment.exists
         [] op = "submit" ->
              /\ payment.exists
              /\ appointment.exists
              /\ appointment.paymentStatus = "paid" /\ appointment.paymentId = id
         [] op = "verify" ->
              /\ payment.exists /\ payment.status = "verified"
              /\ appointment.exists =>
                    appointment.status = "confirmed" /\ appointment.paymentStatus = "verified"
         [] op = "reject" ->
              /\ payment.exists /\ payment.status = "rejected"
              /\ appointment.exists =>
                    appointment.status = "cancelled" /\ appointment.paymentStatus = "failed"

\* what the mail transport does with a send: there is none, sendMail
\* resolves, sendMail throws, or sendMail never settles
Transport(mailer) ==
    CASE mailer \in {"absent", "absent_log_error"} -> "absent"
      [] mailer \in {"send_error", "send_error_log_error"} -> "throws"
      [] mailer = "hangs" -> "hangs"
      [] OTHER -> "sends"

\* whether the audit-log file can be read and written
LogWorks(mailer) ==
    mailer \notin {"log_error", "absent_log_error", "send_error_log_error"}

\* emailLogger.logEmail: the record it appends to the audit log, its status
\* left at the default of the parameter; a failing read or write of the log
\* file is caught and nothing is appended
LogEmail(w, type, suffix) ==
    IF LogWorks(w.mailer)
    THEN << [type |-> type, suffix |-> suffix, status |-> "sent"] >>
    ELSE << >>

\* one finished or pending call of sendEmailAndLog
Attempt(w, type, status, records, returns, written) ==
    [type |-> type, status |-> status, logged |-> records # << >>,
     records |-> records, returns |-> returns, written |-> written,
     log |-> LogWorks(w.mailer)]

\* a faulty variant of SendEmailAndLog that logs the plain record before
\* the send and the failure record after it
SendEmailAndLog_LogsBeforeSend(w, type, written) ==
    CASE Transport(w.mailer) = "absent" ->
           Attempt(w, type, "skipped", LogEmail(w, type, "_skipped"), "false", written)
      [] Transport(w.mailer) = "throws" ->
           Attempt(w, type, "failed",
                   LogEmail(w, type, "") \o LogEmail(w, type, "_failed"), "false", written)
      [] Transport(w.mailer) = "hangs" ->
           Attempt(w, type, "pending", LogEmail(w, type, ""), "pending", written)
      [] OTHER ->
           Attempt(w, type, "sent", LogEmail(w, type, ""), "true", written)

\* sendEmailAndLog: it catches every failure and returns; the outcome of the
\* send, the records it leaves in the audit log, what its promise resolves
\* to, and whether the writes of the operation were in the store when it
\* was called
SendEmailAndLog(w, type, written) ==
    CASE Transport(w.mailer) = "absent" ->
           Attempt(w, type, "skipped", LogEmail(w, type, "_skipped"), "false", written)
      [] Transport(w.mailer) = "throws" ->
           Attempt(w, type, "failed", LogEmail(w, type, "_failed"), "false", written)
      [] Transport(w.mailer) = "hangs" ->
           Attempt(w, type, "pending", << >>, "pending", written)
      [] OTHER ->
           Attempt(w, type, "sent", LogEmail(w, type, ""), "true", written)

\* the notifications of an operation, to the client and to the admin, in
\* the order the handler calls sendEmailAndLog
Dispatch(w, op, id, types) ==
    << SendEmailAndLog(w, types[1], Written(w, op, id)),
       SendEmailAndLog(w, types[2], Written(w, op, id)) >>

\* a faulty variant of RespondMail that awaits its notifications and fails
\* when one of them was not sent or not logged
RespondMail_FailsWithMail(w, r, op, id, mail) ==
    LET good == \A k \in 1..Len(mail) : mail[k].status = "sent" /\ mail[k].logged
        answered == Respond(w, r, op, IF good THEN "ok" ELSE "ServerError", id)
    IN [answered EXCEPT !.resp[r].mail = mail]

\* the handler of slot r answers success after dispatching its
\* notifications without awaiting them
RespondMail(w, r, op, id, mail) ==
    LET answered == Respond(w, r, op, "ok", id) IN
    [answered EXCEPT !.resp[r].mail = mail]

\* the handler of slot r passes its first await and stays in flight; it runs
\* concurrently with every handler in flight at that moment
Begin(w, r, frame) ==
    LET others == {q \in Reqs \ {r} : w.req[q].pc # "idle"} IN
    [w EXCEPT !.req = [q \in Reqs |->
                          IF q = r THEN frame @@ [conc |-> others # {}]
                          ELSE IF q \in others THEN [w.req[q] EXCEPT !.conc = TRUE]
                          ELSE w.req[q]],
              !.resp[r] = NoResp]

\* the handler of slot r moves to its next await
Goto(w, r, frame) == [w EXCEPT !.req[r] = frame]

(********************* createAppointment (controller) *********************)
\* Appointment.findOne({appointmentDate, appointmentTime, status: {$in: [...]}})
CtlSlotHolders(apps, body) ==
    {i \in DOMAIN apps : /\ apps[i].exists
                         /\ apps[i].appointmentDate = body.appointmentDate
                         /\ apps[i].appointmentTime = body.appointmentTime
                         /\ apps[i].status \in {"pending", "confirmed"}}

\* the document Appointment.create(req.body) stores: schema defaults fill
\* the fields the body leaves out
CtlNewAppointment(body) ==
    [exists |-> TRUE, deleted |-> FALSE,
     appointmentDate |-> body.appointmentDate,
     appointmentTime |-> body.appointmentTime,
     status |-> Get(body, "status", "pending"),
     paymentStatus |-> Get(body, "paymentStatus", "pending"),
     paymentId |-> Get(body, "paymentId", NoId)]

CtlCreateFind(w, r, body) ==
    IF CtlSlotHolders(w.appointments, body) # {}
    THEN Respond(w, r, "create", "SlotTaken", NoId)
    ELSE Begin(w, r, [pc |-> "ctl_insert", body |-> body])

\* sendClientConfirmation and sendAdminNotification are not among the
\* exports of the email service: the first call throws inside the handler's
\* inner try, which logs to the console and goes on; nothing is sent, nothing
\* reaches the audit log and the second call is never made
CtlCreateInsert(w, r) ==
    LET id == FreshId(w.appointments)
        done == [w EXCEPT !.appointments[id] = CtlNewAppointment(w.req[r].body)]
    IN RespondMail(done, r, "create", id,
                   << Attempt(done, "appointment_client", "failed", << >>, "thrown",
                              Written(done, "create", id)) >>)

(********************* POST /api/appointments (server) ********************)
\* the instants of a day that hold a CalendarSettings document
SettingsOn(cal, date) ==
    {s \in DOMAIN cal : cal[s].exists /\ DayOf(s) = date}

\* which of several matching documents a findOne without a sort returns
Picks == {"first", "last"}

\* CalendarSettings.findOne({date: {$gte: day start, $lt: day end}}): a
\* document of the day, the earliest or the latest when the day has several
FindSetting(cal, date, pick) ==
    LET found == SettingsOn(cal, date) IN
    IF found = {} THEN NoDoc
    ELSE cal[CHOOSE s \in found :
                \A t \in found : IF pick = "first"
                                 THEN InstantIndex(s) <= InstantIndex(t)
                                 ELSE InstantIndex(s) >= InstantIndex(t)]

\* Appointment.findOne({appointmentDate, appointmentTime})
SrvSlotHolders(apps, body) ==
    {i \in DOMAIN apps : /\ apps[i].exists
                         /\ apps[i].appointmentDate = body.appointmentDate
                         /\ apps[i].appointmentTime = body.appointmentTime}

\* Appointment.create({...req.body, status: 'pending'})
SrvNewAppointment(body) ==
    [CtlNewAppointment(body) EXCEPT !.status = "pending"]

SrvCreateFindSetting(w, r, body, pick) ==
    LET setting == FindSetting(w.calendar, DayOf(body.appointmentDate), pick) IN
    IF setting.exists /\ ~setting.isAvailable
    THEN Respond(w, r, "create", "SlotUnavailable", NoId)
    ELSE Begin(w, r, [pc |-> "srv_find", body |-> body])

SrvCreateFind(w, r) ==
    IF SrvSlotHolders(w.appointments, w.req[r].body) # {}
    THEN Respond(w, r, "create", "SlotTaken", NoId)
    ELSE Goto(w, r, [w.req[r] EXCEPT !.pc = "srv_insert"])

\* a faulty variant of SrvCreateInsert that notifies before it inserts
SrvCreateInsert_MailFirst(w, r) ==
    LET id == FreshId(w.appointments)
        done == [w EXCEPT !.appointments[id] = SrvNewAppointment(w.req[r].body)]
    IN RespondMail(done, r, "create", id,
                   Dispatch(w, "create", id, <<"appointment_client", "appointment_admin">>))

\* Appointment.create, then the two notifications, then the answer
SrvCreateInsert(w, r) ==
    LET id == FreshId(w.appointments)
        done == [w EXCEPT !.appointments[id] = SrvNewAppointment(w.req[r].body)]
    IN RespondMail(done, r, "create", id,
                   Dispatch(done, "create", id, <<"appointment_client", "appointment_admin">>))

(***************************** texts **************************************)
\* a text is a tuple of characters; the empty tuple is an absent text
RECURSIVE TrimLeft(_)
TrimLeft(s) == IF s # <<>> /\ Head(s) = " " THEN TrimLeft(Tail(s)) ELSE s

RECURSIVE TrimRight(_)
TrimRight(s) ==
    IF s # <<>> /\ s[Len(s)] = " " THEN TrimRight(SubSeq(s, 1, Len(s) - 1)) ELSE s

\* String.prototype.trim
Trim(s) == TrimRight(TrimLeft(s))

\* a text longer than the schema's maxlength
LongText == [i \in 1..(MaxTextLen + 1) |-> "x"]

(***************************** submitPayment ******************************)
NoFile == [mimetype |-> "none", size |-> 0]
AllowedTypes == {"image/jpeg", "image/png", "image/jpg", "application/pdf"}
MaxFileSize == 10 * 1024 * 1024
PaymentMethods == {"easypaisa", "jazzcash", "bank_transfer", "cash"}

\* CloudinaryService.validateFile
ValidateFile(file) ==
    /\ file # NoFile
    /\ file.mimetype \in AllowedTypes
    /\ file.size <= MaxFileSize

\* the schema validation Payment.create runs on the submitted fields
PaymentValid(body) == body.paymentMethod \in PaymentMethods

\* Payment.findOne({appointmentId})
PaymentsOf(pays, appointmentId) ==
    {p \in DOMAIN pays : pays[p].exists /\ pays[p].appointmentId = appointmentId}

\* the document Payment.create stores
NewPayment(appointmentId) ==
    [exists |-> TRUE, deleted |-> FALSE,
     appointmentId |-> appointmentId,
     status |-> "pending",
     verifiedBy |-> "",
     verifiedAt |-> 0,
     verificationNotes |-> <<>>,
     rejectedReason |-> <<>>]

\* submitPayment answers; `temp` is whether the receipt file multer wrote
\* to the uploads directory is still there
WithTemp(answered, r, temp) ==
    [answered EXCEPT !.resp[r] = answered.resp[r] @@ [temp |-> temp]]

RespondSubmit(w, r, outcome, id, temp) ==
    WithTemp(Respond(w, r, "submit", outcome, id), r, temp)

\* the req.file check and Appointment.findById; `stored` is whether the
\* object store will take the receipt, `saved` whether the database will
\* take the write of the appointment
SubmitFindAppointment(w, r, body, file, stored, saved) ==
    LET appointment == FindById(w.appointments, body.appointmentId) IN
    IF file = NoFile
    THEN RespondSubmit(w, r, "ValidationError", NoId, FALSE)
    ELSE IF ~appointment.exists
    THEN RespondSubmit(w, r, "AppointmentNotFound", NoId, TRUE)
    ELSE Begin(w, r, [pc |-> "sub_findpay", body |-> body, file |-> file,
                      stored |-> stored, saved |-> saved,
                      appointment |-> appointment])

\* Payment.findOne, validateFile and CloudinaryService.uploadImage, which
\* removes the receipt file only after a successful upload
SubmitFindPayment(w, r) ==
    IF PaymentsOf(w.payments, w.req[r].body.appointmentId) # {}
    THEN RespondSubmit(w, r, "DuplicatePayment", NoId, TRUE)
    ELSE IF ~ValidateFile(w.req[r].file)
    THEN RespondSubmit(w, r, "InvalidReceipt", NoId, TRUE)
    ELSE IF ~w.req[r].stored
    THEN RespondSubmit(w, r, "ReceiptStoreFailure", NoId, TRUE)
    ELSE Goto(w, r, [w.req[r] EXCEPT !.pc = "sub_create"])

\* Payment.create: a validation error is thrown and caught as a 500; the
\* catch finds the receipt file already removed
SubmitCreatePayment(w, r) ==
    IF ~PaymentValid(w.req[r].body)
    THEN RespondSubmit(w, r, "ServerError", NoId, FALSE)
    ELSE LET id == FreshId(w.payments) IN
         Goto([w EXCEPT !.payments[id] = NewPayment(w.req[r].body.appointmentId)],
              r, [w.req[r] EXCEPT !.pc = "sub_save"] @@ [paymentId |-> id])

\* a faulty variant of AttachPayment that marks the appointment paid but
\* forgets to link the payment
AttachPayment_Unlinked(paymentId) == [paymentStatus |-> "paid"]

\* the fields submitPayment sets on the loaded appointment
AttachPayment(paymentId) == [paymentStatus |-> "paid", paymentId |-> paymentId]

\* appointment.save(): it throws when the document is gone or the database
\* refuses the write, and the catch answers 500
SubmitSaveAppointment(w, r) ==
    LET id == w.req[r].body.appointmentId IN
    IF ~w.appointments[id].exists \/ ~w.req[r].saved
    THEN RespondSubmit(w, r, "ServerError", NoId, FALSE)
    ELSE LET done == [w EXCEPT !.appointments[id] =
                          SaveDoc(w.appointments[id], w.req[r].appointment,
                                  AttachPayment(w.req[r].paymentId))]
         IN WithTemp(RespondMail(done, r, "submit", w.req[r].paymentId,
                                 Dispatch(done, "submit", w.req[r].paymentId,
                                          <<"payment_received_client",
                                            "payment_received_admin">>)),
                     r, FALSE)

(***************************** verifyPayment ******************************)
\* req.user?.email || 'admin'
AdminUser(user) == IF user = "" THEN "admin" ELSE user

\* the schema validation payment.save() runs on a modified text path
TextValid(text) == Len(text) <= MaxTextLen

\* a faulty variant of VerifiedFields that drops the admin's notes
VerifiedFields_NoNotes(user, at, notes) ==
    [status |-> "verified", verifiedBy |-> AdminUser(user), verifiedAt |-> at,
     verificationNotes |-> <<>>]

\* the fields verifyPayment sets on the loaded payment
VerifiedFields(user, at, notes) ==
    [status |-> "verified", verifiedBy |-> AdminUser(user), verifiedAt |-> at,
     verificationNotes |-> notes]

\* the guard of verifyPayment on the loaded payment
AlreadyVerified(payment) == payment.status = "verified"

\* Payment.findById, the already-verified guard, and the clock reading
VerifyFind(w, r, id, notes, user) ==
    LET payment == FindById(w.payments, id) IN
    IF ~payment.exists
    THEN Respond(w, r, "verify", "NotFound", NoId)
    ELSE IF AlreadyVerified(payment)
    THEN Respond(w, r, "verify", "AlreadyVerified", NoId)
    ELSE Begin([w EXCEPT !.now = w.now + 1], r,
               [pc |-> "ver_savepay", id |-> id, payment |-> payment,
                changes |-> VerifiedFields(user, w.now + 1, notes)])

\* payment.save(): a validation error is thrown and caught as a 500
VerifySavePayment(w, r) ==
    LET id == w.req[r].id IN
    IF ~TextValid(w.req[r].changes.verificationNotes)
    THEN Respond(w, r, "verify", "ServerError", NoId)
    ELSE Goto([w EXCEPT !.payments[id] =
                   SaveDoc(w.payments[id], w.req[r].payment, w.req[r].changes)],
              r, [w.req[r] EXCEPT !.pc = "ver_findapp"])

\* Appointment.findById(payment.appointmentId)
VerifyFindAppointment(w, r) ==
    LET appointment == FindById(w.appointments, w.req[r].payment.appointmentId) IN
    IF ~appointment.exists
    THEN RespondMail(w, r, "verify", w.req[r].id,
                     Dispatch(w, "verify", w.req[r].id,
                              <<"payment_verified_client", "payment_verified_admin">>))
    ELSE Goto(w, r, [w.req[r] EXCEPT !.pc = "ver_saveapp"] @@ [appointment |-> appointment])

\* the fields verifyPayment sets on the loaded appointment
ConfirmedFields == [paymentStatus |-> "verified", status |-> "confirmed"]

\* appointment.save(): it throws when the document is gone
VerifySaveAppointment(w, r) ==
    LET id == w.req[r].payment.appointmentId IN
    IF ~w.appointments[id].exists
    THEN Respond(w, r, "verify", "ServerError", NoId)
    ELSE LET done == [w EXCEPT !.appointments[id] =
                          SaveDoc(w.appointments[id], w.req[r].appointment, ConfirmedFields)]
         IN RespondMail(done, r, "verify", w.req[r].id,
                        Dispatch(done, "verify", w.req[r].id,
                                 <<"payment_verified_client", "payment_verified_admin">>))

\* a faulty variant of ReasonRefused that measures the reason as given,
\* blanks included
ReasonRefused_Untrimmed(reason) == reason = <<>> \/ Len(reason) < MinReasonLen

(***************************** rejectPayment ******************************)
\* !reason || reason.trim().length < 5
ReasonRefused(reason) == reason = <<>> \/ Len(Trim(reason)) < MinReasonLen

\* the fields rejectPayment sets on the loaded payment
RejectedFields(reason) == [status |-> "rejected", rejectedReason |-> reason]

\* the reason check and Payment.findById
RejectFind(w, r, id, reason) ==
    LET payment == FindById(w.payments, id) IN
    IF ReasonRefused(reason)
    THEN Respond(w, r, "reject", "ValidationError", NoId)
    ELSE IF ~payment.exists
    THEN Respond(w, r, "reject", "NotFound", NoId)
    ELSE Begin(w, r, [pc |-> "rej_savepay", id |-> id, payment |-> payment,
                      changes |-> RejectedFields(reason)])

\* payment.save(): a validation error is thrown and caught as a 500
RejectSavePayment(w, r) ==
    LET id == w.req[r].id IN
    IF ~TextValid(w.req[r].changes.rejectedReason)
    THEN Respond(w, r, "reject", "ServerError", NoId)
    ELSE Goto([w EXCEPT !.payments[id] =
                   SaveDoc(w.payments[id], w.req[r].payment, w.req[r].changes)],
              r, [w.req[r] EXCEPT !.pc = "rej_findapp"])

\* Appointment.findById(payment.appointmentId)
RejectFindAppointment(w, r) ==
    LET appointment == FindById(w.appointments, w.req[r].payment.appointmentId) IN
    IF ~appointment.exists
    THEN RespondMail(w, r, "reject", w.req[r].id,
                     Dispatch(w, "reject", w.req[r].id,
                              <<"payment_rejected_client", "payment_rejected_admin">>))
    ELSE Goto(w, r, [w.req[r] EXCEPT !.pc = "rej_saveapp"] @@ [appointment |-> appointment])

\* a faulty variant of CancelledFields that fails the payment status but
\* leaves the appointment's status alone
CancelledFields_KeepsStatus == [paymentStatus |-> "failed"]

\* the fields rejectPayment sets on the loaded appointment
CancelledFields == [paymentStatus |-> "failed", status |-> "cancelled"]

\* appointment.save(): it throws when the document is gone
RejectSaveAppointment(w, r) ==
    LET id == w.req[r].payment.appointmentId IN
    IF ~w.appointments[id].exists
    THEN Respond(w, r, "reject", "ServerError", NoId)
    ELSE LET done == [w EXCEPT !.appointments[id] =
                          SaveDoc(w.appointments[id], w.req[r].appointment, CancelledFields)]
         IN RespondMail(done, r, "reject", w.req[r].id,
                        Dispatch(done, "reject", w.req[r].id,
                                 <<"payment_rejected_client", "payment_rejected_admin">>))

(******************* updateAppointment, deleteAppointment *****************)
\* the schema validators findByIdAndUpdate runs on the fields of the body
UpdateValid(body) ==
    /\ Has(body, "status") => body.status \in Statuses
    /\ Has(body, "paymentStatus") => body.paymentStatus \in PaymentStatuses
    /\ Has(body, "appointmentTime") => body.appointmentTime \in Times

\* $set of every field the body carries
ApplyUpdate(doc, body) ==
    [f \in DOMAIN doc |-> IF f \in DOMAIN body THEN body[f] ELSE doc[f]]

\* Appointment.findByIdAndUpdate(id, req.body, {new: true, runValidators: true})
UpdateAppointment(w, r, id, body) ==
    IF ~UpdateValid(body)
    THEN Respond(w, r, "update", "ValidationError", NoId)
    ELSE IF ~FindById(w.appointments, id).exists
    THEN Respond(w, r, "update", "NotFound", NoId)
    ELSE Respond([w EXCEPT !.appointments[id] = ApplyUpdate(w.appointments[id], body)],
                 r, "update", "ok", id)

\* Appointment.findByIdAndDelete(id)
DeleteAppointment(w, r, id) ==
    IF ~FindById(w.appointments, id).exists
    THEN Respond(w, r, "delete", "NotFound", NoId)
    ELSE Respond([w EXCEPT !.appointments[id] = Deleted], r, "delete", "ok", id)

(************************* updateCalendarSettings *************************)
\* every custom hour range must carry a start and an end
CustomHoursValid(customHours) ==
    \A k \in 1..Len(customHours) : customHours[k].start # "" /\ customHours[k].end # ""

\* the document the upsert stores: an omitted field takes its default
NewSetting(body) ==
    [exists |-> TRUE, deleted |-> FALSE,
     isAvailable |-> Get(body, "isAvailable", TRUE),
     reason |-> Get(body, "reason", ""),
     customHours |-> Get(body, "customHours", <<>>),
     maxAppointments |-> IF Get(body, "maxAppointments", 0) = 0
                         THEN DefaultMaxAppointments ELSE body.maxAppointments]

\* a faulty variant of UpdateCalendarSettings that sets only the fields the
\* request carries and keeps the stored value of the others
UpdateCalendarSettings_Merges(w, r, body) ==
    IF ~Has(body, "date") \/ ~CustomHoursValid(Get(body, "customHours", <<>>))
    THEN Respond(w, r, "calendar", "ValidationError", NoId)
    ELSE LET stored == IF w.calendar[body.date].exists
                       THEN w.calendar[body.date] ELSE NewSetting(body)
             merged == [f \in DOMAIN stored |->
                           IF f \in DOMAIN body THEN NewSetting(body)[f] ELSE stored[f]]
         IN Respond([w EXCEPT !.calendar[body.date] = merged],
                    r, "calendar", "ok", NoId)

\* CalendarSettings.findOneAndUpdate({date}, {...}, {new: true, upsert: true})
UpdateCalendarSettings(w, r, body) ==
    IF ~Has(body, "date") \/ ~CustomHoursValid(Get(body, "customHours", <<>>))
    THEN Respond(w, r, "calendar", "ValidationError", NoId)
    ELSE Respond([w EXCEPT !.calendar[body.date] = NewSetting(body)],
                 r, "calendar", "ok", NoId)


(*************************** calendar policy ******************************)
\* the position of a date in the week of the model
DayIndex(date) == CHOOSE i \in 1..Len(Week) : Week[i] = date

\* Date.prototype.getDay: 0 is Sunday, 6 is Saturday
GetDay(date) == DayIndex(date) % 7

\* dayOfWeek === 0 || dayOfWeek === 6
IsWeekend(date) == GetDay(date) = 0 \/ GetDay(date) = 6

\* the hour and the minute an "HH:MM" text splits into at the colon
ClockParts ==
    ("09:00" :> <<9, 0>>) @@ ("10:00" :> <<10, 0>>) @@ ("11:00" :> <<11, 0>>) @@
    ("12:00" :> <<12, 0>>) @@ ("14:00" :> <<14, 0>>) @@ ("15:00" :> <<15, 0>>) @@
    ("16:00" :> <<16, 0>>)

\* parseInt(time.split(':')[0]) * 60 + parseInt(time.split(':')[1])
ToMinutes(time) == ClockParts[time][1] * 60 + ClockParts[time][2]

\* a faulty variant of WithinCustomHours that accepts the end of a range
WithinCustomHours_EndIncluded(customHours, time) ==
    \E k \in 1..Len(customHours) :
        /\ ToMinutes(time) >= ToMinutes(customHours[k].start)
        /\ ToMinutes(time) <= ToMinutes(customHours[k].end)

\* checkAvailability: customHours.some(start <= time < end)
WithinCustomHours(customHours, time) ==
    \E k \in 1..Len(customHours) :
        /\ ToMinutes(time) >= ToMinutes(customHours[k].start)
        /\ ToMinutes(time) < ToMinutes(customHours[k].end)

\* a faulty variant of DefaultPolicy that opens every day of the week
DefaultPolicy_AlwaysOpen(date) ==
    [date |-> date, isAvailable |-> TRUE, reason |-> "Default weekday",
     customHours |-> <<>>, maxAppointments |-> DefaultMaxAppointments,
     hasCustomSettings |-> FALSE]

\* getCalendarSettings: the entry of a date that has no setting
DefaultPolicy(date) ==
    [date |-> date,
     isAvailable |-> ~IsWeekend(date),
     reason |-> IF IsWeekend(date) THEN "Weekend" ELSE "Default weekday",
     customHours |-> <<>>,
     maxAppointments |-> DefaultMaxAppointments,
     hasCustomSettings |-> FALSE]

\* getCalendarSettings: the entry of a date, from the setting mapped to it
\* when there is one
Entry(setting, date) ==
    IF setting.exists
    THEN [date |-> date,
          isAvailable |-> setting.isAvailable,
          reason |-> setting.reason,
          customHours |-> setting.customHours,
          maxAppointments |-> setting.maxAppointments,
          hasCustomSettings |-> TRUE]
    ELSE DefaultPolicy(date)

\* CalendarSettings.find({date: {$gte: start, $lte: end}}): the instants
\* from the midnight of the first day to the midnight of the last
\* settingsMap[dateStr]: of the settings found, sorted by date, the last one
\* of the day
MappedSetting(cal, first, last, date) ==
    LET found == {s \in DOMAIN cal : /\ cal[s].exists
                                     /\ InstantIndex(Week[first]) <= InstantIndex(s)
                                     /\ InstantIndex(s) <= InstantIndex(Week[last])
                                     /\ DayOf(s) = date} IN
    IF found = {} THEN NoDoc
    ELSE cal[CHOOSE s \in found : \A t \in found : InstantIndex(s) >= InstantIndex(t)]

\* the handler of slot r answers a read with its data and ends
RespondData(w, r, op, outcome, data) ==
    [w EXCEPT !.req[r] = Idle,
              !.resp[r] = [op |-> op, outcome |-> outcome, id |-> NoId,
                           conc |-> FALSE, data |-> data]]

\* getCalendarSettings: one entry per day from startDate to endDate
GetCalendarSettings(w, r, query) ==
    IF ~Has(query, "startDate") \/ ~Has(query, "endDate")
    THEN RespondData(w, r, "settings", "ValidationError", <<>>)
    ELSE LET first == DayIndex(query.startDate)
             last == DayIndex(query.endDate)
         IN RespondData(w, r, "settings", "ok",
                [i \in 1..(IF first <= last THEN last - first + 1 ELSE 0) |->
                    Entry(MappedSetting(w.calendar, first, last, Week[first + i - 1]),
                          Week[first + i - 1])])

(**************************** getAvailableSlots ***************************)
\* Appointment.find({appointmentDate in the day, status: {$in: [...]}}) mapped
\* to the appointmentTime of each: the day runs from its first to its last
\* millisecond, whatever time of day the query's date carries
BookedTimes(apps, date) ==
    {apps[i].appointmentTime :
        i \in {j \in DOMAIN apps : /\ apps[j].exists
                                   /\ DayOf(apps[j].appointmentDate) = DayOf(date)
                                   /\ apps[j].status \in {"pending", "confirmed"}}}

\* allSlots.filter(slot => !bookedTimes.includes(slot)); a weekend has none
AvailableSlots(apps, date) ==
    IF IsWeekend(DayOf(date)) THEN <<>>
    ELSE SelectSeq(AllSlots, LAMBDA slot : slot \notin BookedTimes(apps, date))

GetAvailableSlots(w, r, query) ==
    IF ~Has(query, "date")
    THEN RespondData(w, r, "slots", "ValidationError", <<>>)
    ELSE RespondData(w, r, "slots", "ok", AvailableSlots(w.appointments, query.date))


(**************************** checkAvailability ***************************)
\* the answer for one date and time: the setting of the day decides, with
\* its custom hours when it has some; without a setting only a weekend closes
Availability(cal, date, time, pick) ==
    LET setting == FindSetting(cal, date, pick)
        outside == /\ setting.exists
                   /\ setting.customHours # <<>>
                   /\ ~WithinCustomHours(setting.customHours, time)
    IN [date |-> date,
        time |-> time,
        isAvailable |-> IF setting.exists THEN setting.isAvailable /\ ~outside
                        ELSE ~IsWeekend(date),
        reason |-> IF outside THEN "Outside custom working hours"
                   ELSE IF setting.exists
                   THEN (IF setting.reason = "" THEN "Custom setting" ELSE setting.reason)
                   ELSE IF IsWeekend(date) THEN "Weekend (no custom settings)" ELSE "",
        hasCustomSettings |-> setting.exists]

CheckAvailability(w, r, query, pick) ==
    IF ~Has(query, "date") \/ ~Has(query, "time")
    THEN RespondData(w, r, "check", "ValidationError", <<>>)
    ELSE RespondData(w, r, "check", "ok", Availability(w.calendar, query.date, query.time, pick))

(*********************** bulkUpdateCalendarSettings ***********************)
\* one entry of the bulk update: findOneAndUpdate throws on an entry without
\* a date (the filter cannot be cast), which is caught and noted; nothing
\* looks at the custom hours, whose schema has no required path and whose
\* match validator lets an empty text pass
BulkEntryStored(update) == Has(update, "date")

\* the for loop over the updates, in list order
RECURSIVE BulkApply(_, _)
BulkApply(cal, updates) ==
    IF updates = << >> THEN cal
    ELSE BulkApply(IF BulkEntryStored(Head(updates))
                   THEN [cal EXCEPT ![Head(updates).date] = NewSetting(Head(updates))]
                   ELSE cal,
                   Tail(updates))

\* bulkUpdateCalendarSettings: the updates must be a non-empty array
BulkUpdateCalendarSettings(w, r, body) ==
    IF ~Has(body, "updates") \/ Get(body, "updates", << >>) = << >>
    THEN RespondData(w, r, "bulk", "ValidationError", [totalUpdated |-> 0])
    ELSE RespondData([w EXCEPT !.calendar = BulkApply(w.calendar, body.updates)],
                     r, "bulk", "ok", [totalUpdated |->
                         Cardinality({k \in 1..Len(body.updates) :
                                         BulkEntryStored(body.updates[k])})])
(****************************** requests **********************************)
\* the step the handler in flight on slot r takes at its next await
Step(w, r) ==
    CASE w.req[r].pc = "ctl_insert" -> CtlCreateInsert(w, r)
      [] w.req[r].pc = "srv_find" -> SrvCreateFind(w, r)
      [] w.req[r].pc = "srv_insert" -> SrvCreateInsert(w, r)
      [] w.req[r].pc = "sub_findpay" -> SubmitFindPayment(w, r)
      [] w.req[r].pc = "sub_create" -> SubmitCreatePayment(w, r)
      [] w.req[r].pc = "sub_save" -> SubmitSaveAppointment(w, r)
      [] w.req[r].pc = "ver_savepay" -> VerifySavePayment(w, r)
      [] w.req[r].pc = "ver_findapp" -> VerifyFindAppointment(w, r)
      [] w.req[r].pc = "ver_saveapp" -> VerifySaveAppointment(w, r)
      [] w.req[r].pc = "rej_savepay" -> RejectSavePayment(w, r)
      [] w.req[r].pc = "rej_findapp" -> RejectFindAppointment(w, r)
      [] w.req[r].pc = "rej_saveapp" -> RejectSaveAppointment(w, r)

\* the handler in flight on slot r passes one await, if it has not answered
Resume(w, r) == IF w.req[r].pc = "idle" THEN w ELSE Step(w, r)

\* the handler on slot r run to its response with no other request between:
\* no handler has more than three awaits after its first
Run(w, r) == Resume(Resume(Resume(w, r), r), r)

\* room for the document a create / a submit will insert
CanCreate == Pending({"ctl_insert", "srv_find", "srv_insert"}) < Unused(appointments)
CanSubmit == Pending({"sub_findpay", "sub_create"}) < Unused(payments)
\* a reading of the clock is left for the verify that will take one
CanVerify(id) ==
    (FindById(payments, id).exists /\ ~AlreadyVerified(payments[id])) => now < MaxClock

\* what a create request may carry besides the date and the time
CreateExtras ==
    { <<>>, [status |-> "confirmed", paymentStatus |-> "paid", paymentId |-> 1] }

\* bookings of two Monday slots, plain or with extras, and plain bookings of
\* two Saturday slots
CreateBodies ==
    { [appointmentDate |-> "2024-06-10", appointmentTime |-> t] @@ x :
          t \in {"09:00", "10:00"}, x \in CreateExtras }
    \cup { [appointmentDate |-> "2024-06-15", appointmentTime |-> t] :
              t \in {"09:00", "14:00"} }

GoodReceipt == [mimetype |-> "image/png", size |-> 204800]

\* a submit request: the body, the receipt file, whether the object store
\* takes the receipt and whether the database takes the appointment's write
GoodSubmits ==
    { [body |-> [appointmentId |-> a, paymentMethod |-> "bank_transfer"],
       file |-> GoodReceipt, stored |-> TRUE, saved |-> TRUE] : a \in AppIds }

Submits ==
    GoodSubmits
    \cup { [s EXCEPT !.file = f] :
              s \in GoodSubmits,
              f \in { NoFile, [mimetype |-> "image/gif", size |-> 204800],
                       [mimetype |-> "application/pdf", size |-> MaxFileSize + 1] } }
    \cup { [s EXCEPT !.stored = FALSE] : s \in GoodSubmits }
    \cup { [s EXCEPT !.saved = FALSE] : s \in GoodSubmits }
    \cup { [s EXCEPT !.body.paymentMethod = "paypal"] : s \in GoodSubmits }

Notes == { <<"o", "k">>, LongText }
\* the payment routes mount no authentication: req.user is never set
Users == { "" }
Reasons ==
    { <<>>, <<"b", "l", "u", "r">>, <<" ", " ", "b", "a", "d", " ", " ">>,
      <<"f", "a", "k", "e", "d">>, <<" ", "f", "a", "k", "e", "d", " ">>, LongText }

UpdateBodies ==
    { [status |-> "completed"], [status |-> "done"], [paymentStatus |-> "verified"],
      [appointmentDate |-> "2024-06-10", appointmentTime |-> "09:00"] }

\* Monday closed; Monday open for one appointment; a body without a date;
\* Saturday with a range that lacks its end; Saturday open from 09:00 to 12:00;
\* a setting dated ten o'clock on Monday
CalendarBodies ==
    { [date |-> "2024-06-10", isAvailable |-> FALSE, reason |-> "Holiday"],
      [date |-> "2024-06-10", maxAppointments |-> 1],
      [isAvailable |-> FALSE],
      [date |-> "2024-06-15", customHours |-> <<[start |-> "09:00", end |-> ""]>>],
      [date |-> "2024-06-15", isAvailable |-> TRUE,
       customHours |-> <<[start |-> "09:00", end |-> "12:00"]>>],
      [date |-> "2024-06-10T10:00:00Z", reason |-> "Late opening"] }

(********************** one request at a time *****************************)
CreateAppointment(r, body) ==
    /\ ~InFlight(r) /\ CanCreate
    /\ Serve(Run(CtlCreateFind(World, r, body), r))

PostAppointment(r, body) ==
    /\ ~InFlight(r) /\ CanCreate
    /\ \E pick \in Picks : Serve(Run(SrvCreateFindSetting(World, r, body, pick), r))

SubmitPayment(r, s) ==
    /\ ~InFlight(r) /\ CanSubmit
    /\ Serve(Run(SubmitFindAppointment(World, r, s.body, s.file, s.stored, s.saved), r))

VerifyPayment(r, id, notes, user) ==
    /\ ~InFlight(r) /\ CanVerify(id)
    /\ Serve(Run(VerifyFind(World, r, id, notes, user), r))

RejectPayment(r, id, reason) ==
    /\ ~InFlight(r)
    /\ Serve(Run(RejectFind(World, r, id, reason), r))

AdminUpdate(r, id, body) ==
    /\ ~InFlight(r)
    /\ Serve(UpdateAppointment(World, r, id, body))

AdminDelete(r, id) ==
    /\ ~InFlight(r)
    /\ Serve(DeleteAppointment(World, r, id))

AdminCalendar(r, body) ==
    /\ ~InFlight(r)
    /\ Serve(UpdateCalendarSettings(World, r, body))

Next ==
    \/ \E body \in CreateBodies : CreateAppointment(1, body)
    \/ \E body \in CreateBodies : PostAppointment(1, body)
    \/ \E s \in Submits : SubmitPayment(1, s)
    \/ \E id \in PayIds, notes \in Notes, user \in Users : VerifyPayment(1, id, notes, user)
    \/ \E id \in PayIds, reason \in Reasons : RejectPayment(1, id, reason)
    \/ \E id \in AppIds, body \in UpdateBodies : AdminUpdate(1, id, body)
    \/ \E id \in AppIds : AdminDelete(1, id)
    \/ \E body \in CalendarBodies : AdminCalendar(1, body)

Spec == Init /\ [][Next]_vars

(************************ reads between requests **************************)
SlotQueries == { [date |-> d] : d \in {"2024-06-10", "2024-06-15"} } \cup { <<>> }

\* the whole week, Monday alone, a range that ends before it starts, and a
\* query without its end
SettingQueries ==
    { [startDate |-> "2024-06-10", endDate |-> "2024-06-16"],
      [startDate |-> "2024-06-10", endDate |-> "2024-06-10"],
      [startDate |-> "2024-06-16", endDate |-> "2024-06-15"],
      [startDate |-> "2024-06-10"] }

AvailableSlotsRead(r, query) ==
    /\ ~InFlight(r)
    /\ Serve(GetAvailableSlots(World, r, query))

CalendarSettingsRead(r, query) ==
    /\ ~InFlight(r)
    /\ Serve(GetCalendarSettings(World, r, query))

\* a slot at the start of Saturday's custom hours and the time they end at,
\* on Monday and on Saturday, and a query without its time
CheckQueries ==
    { [date |-> d, time |-> t] : d \in {"2024-06-10", "2024-06-15"},
                                 t \in {"09:00", "12:00"} }
    \cup { [date |-> "2024-06-10"] }

AvailabilityCheck(r, query) ==
    /\ ~InFlight(r)
    /\ \E pick \in Picks : Serve(CheckAvailability(World, r, query, pick))

NextQuery ==
    \/ \E body \in CreateBodies : CreateAppointment(1, body)
    \/ \E body \in CreateBodies : PostAppointment(1, body)
    \/ \E s \in Submits : SubmitPayment(1, s)
    \/ \E id \in PayIds, notes \in Notes, user \in Users : VerifyPayment(1, id, notes, user)
    \/ \E id \in PayIds, reason \in Reasons : RejectPayment(1, id, reason)
    \/ \E id \in AppIds, body \in UpdateBodies : AdminUpdate(1, id, body)
    \/ \E id \in AppIds : AdminDelete(1, id)
    \/ \E body \in CalendarBodies : AdminCalendar(1, body)
    \/ \E query \in SlotQueries : AvailableSlotsRead(1, query)
    \/ \E query \in SettingQueries : CalendarSettingsRead(1, query)
    \/ \E query \in CheckQueries : AvailabilityCheck(1, query)

SpecQuery == Init /\ [][NextQuery]_vars

(****************** requests under a failing mailer ***********************)
\* one request at a time, each served under one behaviour of the mail
\* transport and of the audit log
\* a Monday and a Saturday booking; receipts that go through, that the object
\* store refuses, that the database refuses, and a request without a receipt;
\* a missing and a sufficient reason
MailBodies ==
    { [appointmentDate |-> d, appointmentTime |-> "09:00"] : d \in {"2024-06-10", "2024-06-15"} }
MailSubmits ==
    GoodSubmits
    \cup { [s EXCEPT !.stored = FALSE] : s \in GoodSubmits }
    \cup { [s EXCEPT !.saved = FALSE] : s \in GoodSubmits }
    \cup { [s EXCEPT !.file = NoFile] : s \in GoodSubmits }
MailReasons == { <<>>, <<"f", "a", "k", "e", "d">> }

CreateUnder(r, body, mailer) ==
    /\ ~InFlight(r) /\ CanCreate
    /\ Serve(Run(CtlCreateFind(WorldWith(mailer), r, body), r))

PostUnder(r, body, mailer) ==
    /\ ~InFlight(r) /\ CanCreate
    /\ \E pick \in Picks :
          Serve(Run(SrvCreateFindSetting(WorldWith(mailer), r, body, pick), r))

SubmitUnder(r, s, mailer) ==
    /\ ~InFlight(r) /\ CanSubmit
    /\ Serve(Run(SubmitFindAppointment(WorldWith(mailer), r, s.body, s.file,
                                       s.stored, s.saved), r))

VerifyUnder(r, id, notes, user, mailer) ==
    /\ ~InFlight(r) /\ CanVerify(id)
    /\ Serve(Run(VerifyFind(WorldWith(mailer), r, id, notes, user), r))

RejectUnder(r, id, reason, mailer) ==
    /\ ~InFlight(r)
    /\ Serve(Run(RejectFind(WorldWith(mailer), r, id, reason), r))

NextMail ==
    \/ \E body \in MailBodies, mailer \in Mailers : CreateUnder(1, body, mailer)
    \/ \E body \in MailBodies, mailer \in Mailers : PostUnder(1, body, mailer)
    \/ \E s \in MailSubmits, mailer \in Mailers : SubmitUnder(1, s, mailer)
    \/ \E id \in PayIds, notes \in Notes, user \in Users, mailer \in Mailers :
          VerifyUnder(1, id, notes, user, mailer)
    \/ \E id \in PayIds, reason \in MailReasons, mailer \in Mailers :
          RejectUnder(1, id, reason, mailer)
    \/ \E id \in AppIds : AdminDelete(1, id)

SpecMail == Init /\ [][NextMail]_vars

(************************ interleaved requests ****************************)
\* the requests that race: plain bookings of one slot, good receipts, short texts
RaceBodies == { [appointmentDate |-> "2024-06-10", appointmentTime |-> "09:00"] }
RaceNotes == { <<"o", "k">>, <<"n", "o">> }
RaceReasons == { <<"f", "a", "k", "e", "d">> }

CreateArrives(r, body) ==
    /\ ~InFlight(r) /\ CanCreate
    /\ Serve(CtlCreateFind(World, r, body))

PostArrives(r, body) ==
    /\ ~InFlight(r) /\ CanCreate
    /\ \E pick \in Picks : Serve(SrvCreateFindSetting(World, r, body, pick))

SubmitArrives(r, s) ==
    /\ ~InFlight(r) /\ CanSubmit
    /\ Serve(SubmitFindAppointment(World, r, s.body, s.file, s.stored, s.saved))

VerifyArrives(r, id, notes, user) ==
    /\ ~InFlight(r) /\ CanVerify(id)
    /\ Serve(VerifyFind(World, r, id, notes, user))

RejectArrives(r, id, reason) ==
    /\ ~InFlight(r)
    /\ Serve(RejectFind(World, r, id, reason))

\* the handler in flight on slot r passes the await it is at
Continue(r, pc) ==
    /\ req[r].pc = pc
    /\ Commit(Step(World, r))

NextConc ==
    \E r \in Reqs :
        \/ \E body \in RaceBodies : CreateArrives(r, body)
        \/ \E body \in RaceBodies : PostArrives(r, body)
        \/ \E s \in GoodSubmits : SubmitArrives(r, s)
        \/ \E id \in PayIds, notes \in RaceNotes, user \in Users :
               VerifyArrives(r, id, notes, user)
        \/ \E id \in PayIds, reason \in RaceReasons : RejectArrives(r, id, reason)
        \/ Continue(r, "ctl_insert")
        \/ Continue(r, "srv_find")
        \/ Continue(r, "srv_insert")
        \/ Continue(r, "sub_findpay")
        \/ Continue(r, "sub_create")
        \/ Continue(r, "sub_save")
        \/ Continue(r, "ver_savepay")
        \/ Continue(r, "ver_findapp")
        \/ Continue(r, "ver_saveapp")
        \/ Continue(r, "rej_savepay")
        \/ Continue(r, "rej_findapp")
        \/ Continue(r, "rej_saveapp")

SpecConc == Init /\ [][NextConc]_vars

(************************ routes and their guards *************************)
\* the Authorization header of a request: none, a bearer token that does not
\* verify, and a bearer token signed for the admin
Tokens == {"none", "forged", "admin"}

\* requireAdminAuth: 401 without a bearer token, 401 when jwt.verify throws,
\* next() otherwise
RequireAdminAuth(token) ==
    CASE token = "none" -> "NoToken"
      [] token = "forged" -> "InvalidToken"
      [] OTHER -> "next"

\* the routes that mount requireAdminAuth before their handler: the payment
\* router and the calendar router mount none
Guarded(route) == route = "email_logs"

\* a request passes the middleware of its route and reaches the handler
Admit(w, r, route, token, handled) ==
    IF Guarded(route) /\ RequireAdminAuth(token) # "next"
    THEN Respond(w, r, route, "Unauthorized", NoId)
    ELSE handled

\* getAllPayments without filters: every payment, on the first page
GetAllPayments(w, r) ==
    RespondData(w, r, "payments_list", "ok",
                {p \in DOMAIN w.payments : w.payments[p].exists})

\* getPaymentById
GetPaymentById(w, r, id) ==
    IF ~FindById(w.payments, id).exists
    THEN RespondData(w, r, "payments_get", "NotFound", << >>)
    ELSE RespondData(w, r, "payments_get", "ok", w.payments[id])


\* single updates; a bulk update of a closing and a body without a date, one
\* of a range that lacks its end, and one without entries
BulkBodies ==
    { [updates |-> << [date |-> "2024-06-10", isAvailable |-> FALSE, reason |-> "Holiday"],
                     [isAvailable |-> FALSE],
                     [date |-> "2024-06-11", maxAppointments |-> 1] >>],
      [updates |-> << [date |-> "2024-06-15",
                       customHours |-> <<[start |-> "09:00", end |-> ""]>>] >>],
      [updates |-> << [date |-> "2024-06-10", isAvailable |-> FALSE],
                      [date |-> "2024-06-10", reason |-> "Open again"] >>],
      [updates |-> << >>] }

PutVerify(r, token, id, notes) ==
    /\ ~InFlight(r) /\ CanVerify(id)
    /\ Serve(Admit(World, r, "payments_verify", token,
                   Run(VerifyFind(World, r, id, notes, ""), r)))

PutReject(r, token, id, reason) ==
    /\ ~InFlight(r)
    /\ Serve(Admit(World, r, "payments_reject", token,
                   Run(RejectFind(World, r, id, reason), r)))

PutCalendar(r, token, body) ==
    /\ ~InFlight(r)
    /\ Serve(Admit(World, r, "calendar_update", token,
                   UpdateCalendarSettings(World, r, body)))

PostCalendarBulk(r, token, body) ==
    /\ ~InFlight(r)
    /\ Serve(Admit(World, r, "calendar_bulk", token,
                   BulkUpdateCalendarSettings(World, r, body)))

GetPayments(r, token) ==
    /\ ~InFlight(r)
    /\ Serve(Admit(World, r, "payments_list", token, GetAllPayments(World, r)))

GetPayment(r, token, id) ==
    /\ ~InFlight(r)
    /\ Serve(Admit(World, r, "payments_get", token, GetPaymentById(World, r, id)))

\* GET /api/admin/email-logs: the audit log is no part of the store
GetLogs(r, token) ==
    /\ ~InFlight(r)
    /\ Serve(Admit(World, r, "email_logs", token, RespondData(World, r, "email_logs", "ok", << >>)))

NextAuth ==
    \/ \E body \in MailBodies : CreateAppointment(1, body)
    \/ \E s \in GoodSubmits : SubmitPayment(1, s)
    \/ \E token \in Tokens, id \in PayIds, notes \in RaceNotes : PutVerify(1, token, id, notes)
    \/ \E token \in Tokens, id \in PayIds, reason \in MailReasons :
          PutReject(1, token, id, reason)
    \/ \E token \in Tokens, body \in CalendarBodies : PutCalendar(1, token, body)
    \/ \E token \in Tokens, body \in BulkBodies : PostCalendarBulk(1, token, body)
    \/ \E token \in Tokens : GetPayments(1, token)
    \/ \E token \in Tokens, id \in PayIds : GetPayment(1, token, id)
    \/ \E token \in Tokens : GetLogs(1, token)

SpecAuth == Init /\ [][NextAuth]_vars

(************************** calendar updates ******************************)
BulkCalendar(r, body) ==
    /\ ~InFlight(r)
    /\ Serve(BulkUpdateCalendarSettings(World, r, body))

NextCal ==
    \/ \E body \in CalendarBodies : AdminCalendar(1, body)
    \/ \E body \in BulkBodies : BulkCalendar(1, body)
    \/ \E query \in SettingQueries : CalendarSettingsRead(1, query)

SpecCal == Init /\ [][NextCal]_vars

(******************** dates with a time of day ****************************)
\* bookings of two Monday slots, dated midnight or ten o'clock of the day
DayBodies ==
    { [appointmentDate |-> d, appointmentTime |-> t] :
          d \in {"2024-06-10", "2024-06-10T10:00:00Z"}, t \in {"09:00", "10:00"} }

DayQueries == { [date |-> d] : d \in {"2024-06-10", "2024-06-10T10:00:00Z"} }

NextDay ==
    \/ \E body \in DayBodies : CreateAppointment(1, body)
    \/ \E body \in DayBodies : PostAppointment(1, body)
    \/ \E id \in AppIds : AdminDelete(1, id)
    \/ \E query \in DayQueries : AvailableSlotsRead(1, query)

SpecDay == Init /\ [][NextDay]_vars

(****************** requests whose notifications hang *********************)
\* a faulty variant of ContinueHung in which the handler awaits the
\* notifications it dispatches: it is resumed only once they have settled
ContinueHung_AwaitsMail(r) ==
    /\ InFlight(r)
    /\ LET next == Step(WorldWith("hangs"), r) IN
       /\ \A k \in 1..Len(next.resp[r].mail) : next.resp[r].mail[k].returns # "pending"
       /\ Commit(next)

\* the handler in flight on slot r passes the await it is at, while no send
\* handed to the mail transport ever settles
ContinueHung(r) ==
    /\ InFlight(r)
    /\ Commit(Step(WorldWith("hangs"), r))

NextHang ==
    \/ \E body \in MailBodies : CreateArrives(1, body)
    \/ \E body \in MailBodies : PostArrives(1, body)
    \/ \E s \in MailSubmits : SubmitArrives(1, s)
    \/ \E id \in PayIds, notes \in Notes, user \in Users : VerifyArrives(1, id, notes, user)
    \/ \E id \in PayIds, reason \in MailReasons : RejectArrives(1, id, reason)
    \/ \E id \in AppIds : AdminDelete(1, id)
    \/ ContinueHung(1)

\* every awaited database call of a handler settles, so the event loop
\* resumes the handler
SpecHang == Init /\ [][NextHang]_vars /\ WF_vars(ContinueHung(1))

(*********************** vocabulary of the claims *************************)
SameSlot(a, b) ==
    a.appointmentDate = b.appointmentDate /\ a.appointmentTime = b.appointmentTime

\* the appointment document holds its slot: it exists and is not cancelled
Holds(a) == a.exists /\ a.status # "cancelled"

\* slot r has answered `op` with success, and that answer is its latest
Succeeded(r, op) == resp[r].op = op /\ resp[r].outcome = "ok"

\* the latest requests of both slots were `op`, ran concurrently, and both succeeded
BothSucceeded(op) ==
    /\ Succeeded(1, op) /\ Succeeded(2, op)
    /\ resp[1].conc /\ resp[2].conc

\* C1: two concurrent create requests for the same (appointmentDate,
\* appointmentTime) never both succeed: at most one of them inserts an
\* Appointment.
C1_ConcurrentCreatesExclude ==
    BothSucceeded("create") =>
        ~SameSlot(appointments[resp[1].id], appointments[resp[2].id])

\* C2: in every state reached by requests served one at a time, at most one
\* Appointment whose status is not cancelled occupies a (date, time) pair.
C2_OneHolderPerSlot ==
    \A i, j \in AppIds :
        (i # j /\ Holds(appointments[i]) /\ Holds(appointments[j]))
            => ~SameSlot(appointments[i], appointments[j])

\* C3: while an appointment created for (date, time) is pending, confirmed or
\* completed, no later create for the same pair succeeds: a create that has
\* just inserted an Appointment finds no other holder of its slot.
C3_HeldSlotRefused ==
    Succeeded(1, "create") =>
        \A j \in AppIds \ {resp[1].id} :
            Holds(appointments[j]) => ~SameSlot(appointments[j], appointments[resp[1].id])

\* C4: two concurrent submit-payment requests for the same appointment never
\* both create a Payment: at most one Payment references an appointment.
C4_OnePaymentPerAppointment ==
    \A a \in AppIds : Cardinality(PaymentsOf(payments, a)) <= 1

\* C5: a successful create yields an Appointment with status = pending and
\* paymentStatus = pending, whatever the request body carries.
C5_CreatedPending ==
    Succeeded(1, "create") =>
        /\ appointments[resp[1].id].status = "pending"
        /\ appointments[resp[1].id].paymentStatus = "pending"

\* C6: a successful submit-payment creates exactly one Payment, with status
\* pending, that references the appointment; it sets the appointment's
\* paymentStatus to paid and links the payment id to it; the appointment's
\* status and every other document are left as they were.
C6_SubmitAttaches ==
    [][ \A s \in Submits :
          (Succeeded(1, "submit")' /\ SubmitPayment(1, s))
          => LET p == resp'[1].id
                 a == s.body.appointmentId
             IN /\ payments[p] = NoDoc
                /\ payments'[p] = NewPayment(a)
                /\ payments'[p].status = "pending"
                /\ PaymentsOf(payments', a) = {p}
                /\ \A q \in PayIds \ {p} : payments'[q] = payments[q]
                /\ appointments'[a].paymentStatus = "paid"
                /\ appointments'[a].paymentId = p
                /\ appointments'[a].status = appointments[a].status
                /\ SameSlot(appointments'[a], appointments[a])
                /\ \A b \in AppIds \ {a} : appointments'[b] = appointments[b]
      ]_vars

\* C6 witness: a submit has just succeeded on an appointment that is now paid
\* and linked to the pending payment
C6_Witness ==
    /\ Succeeded(1, "submit")
    /\ payments[resp[1].id].status = "pending"
    /\ \E a \in AppIds :
          /\ appointments[a].exists
          /\ payments[resp[1].id].appointmentId = a
          /\ appointments[a].paymentStatus = "paid"
          /\ appointments[a].paymentId = resp[1].id
          /\ appointments[a].status = "completed"

\* C7: submit-payment is accepted only when the appointment's paymentStatus is
\* pending and no Payment is linked; on an appointment that is paid, verified
\* or failed it never succeeds and never moves paymentStatus back to paid.
C7_SubmitOnlyWhenPending ==
    [][ \A s \in Submits :
          (Succeeded(1, "submit")' /\ SubmitPayment(1, s))
          => /\ appointments[s.body.appointmentId].paymentStatus = "pending"
             /\ appointments[s.body.appointmentId].paymentId = NoId
      ]_vars

\* C8: verify-payment on a Payment whose status is not verified sets
\* payment.status = verified, records the verifier, the timestamp and the
\* notes on it, and sets the referenced Appointment's paymentStatus = verified
\* and status = confirmed.  The request is one the schema accepts (notes of at
\* most MaxTextLen characters); the appointment part applies while the
\* referenced Appointment still exists.
C8_VerifyConfirms ==
    [][ \A id \in PayIds, notes \in Notes, user \in Users :
          ( /\ resp'[1].op = "verify"
            /\ payments[id].exists
            /\ payments[id].status # "verified"
            /\ TextValid(notes)
            /\ VerifyPayment(1, id, notes, user) )
          => LET a == payments[id].appointmentId IN
             /\ Succeeded(1, "verify")'
             /\ resp'[1].id = id
             /\ payments'[id].status = "verified"
             /\ payments'[id].verifiedBy = AdminUser(user)
             /\ now' = now + 1
             /\ payments'[id].verifiedAt = now'
             /\ payments'[id].verificationNotes = notes
             /\ payments'[id].appointmentId = a
             /\ appointments[a].exists =>
                   /\ appointments'[a].paymentStatus = "verified"
                   /\ appointments'[a].status = "confirmed"
      ]_vars

\* C8 witness: a verify has just succeeded on a payment that had been rejected
\* before; the payment is verified with its notes and its appointment is
\* confirmed
C8_Witness ==
    /\ Succeeded(1, "verify")
    /\ payments[resp[1].id].status = "verified"
    /\ payments[resp[1].id].verifiedAt = now
    /\ payments[resp[1].id].verificationNotes = <<"o", "k">>
    /\ payments[resp[1].id].rejectedReason # <<>>
    /\ \E a \in AppIds :
          /\ payments[resp[1].id].appointmentId = a
          /\ appointments[a].exists
          /\ appointments[a].paymentStatus = "verified"
          /\ appointments[a].status = "confirmed"

\* C9: verify-payment on an already-verified Payment fails and changes
\* nothing, also when two verify requests for the same Payment run
\* concurrently: exactly one of the two succeeds.
C9_ConcurrentVerifiesExclude ==
    ~(BothSucceeded("verify") /\ resp[1].id = resp[2].id)

\* the sequential half of C9: a verify request on a verified Payment is
\* answered AlreadyVerified and leaves every document as it was
C9_VerifiedRefusedInTurn ==
    [][ \A id \in PayIds, notes \in Notes, user \in Users :
          ( /\ resp'[1].op = "verify"
            /\ payments[id].exists
            /\ payments[id].status = "verified"
            /\ VerifyPayment(1, id, notes, user) )
          => /\ resp'[1].outcome = "AlreadyVerified"
             /\ payments' = payments
             /\ appointments' = appointments
      ]_vars

\* C10: reject-payment with a valid reason (at least MinReasonLen characters
\* once trimmed, at most MaxTextLen characters) sets payment.status = rejected
\* and the referenced Appointment's status = cancelled and paymentStatus =
\* failed, whatever their prior states.
C10_RejectCancels ==
    [][ \A id \in PayIds, reason \in Reasons :
          ( /\ resp'[1].op = "reject"
            /\ payments[id].exists
            /\ Len(Trim(reason)) >= MinReasonLen
            /\ TextValid(reason)
            /\ RejectPayment(1, id, reason) )
          => LET a == payments[id].appointmentId IN
             /\ Succeeded(1, "reject")'
             /\ payments'[id].status = "rejected"
             /\ payments'[id].rejectedReason = reason
             /\ appointments[a].exists =>
                   /\ appointments'[a].status = "cancelled"
                   /\ appointments'[a].paymentStatus = "failed"
      ]_vars

\* C10 witness: a reject has just succeeded on a payment that had been
\* verified before; the payment is rejected and its appointment, confirmed
\* until then, is cancelled with paymentStatus failed
C10_Witness ==
    /\ Succeeded(1, "reject")
    /\ payments[resp[1].id].status = "rejected"
    /\ payments[resp[1].id].verifiedAt > 0
    /\ \E a \in AppIds :
          /\ payments[resp[1].id].appointmentId = a
          /\ appointments[a].exists
          /\ appointments[a].status = "cancelled"
          /\ appointments[a].paymentStatus = "failed"

\* C11 as claimed: reject-payment is accepted exactly when the reason has
\* length at least MinReasonLen: a shorter or missing reason fails with
\* ValidationError and changes nothing, every longer one (padded with blanks
\* or not) is accepted.
C11_ReasonLengthDecides ==
    [][ \A id \in PayIds, reason \in Reasons :
          ( /\ resp'[1].op = "reject"
            /\ payments[id].exists
            /\ RejectPayment(1, id, reason) )
          => IF Len(reason) >= MinReasonLen
             THEN Succeeded(1, "reject")'
             ELSE /\ resp'[1].outcome = "ValidationError"
                  /\ payments' = payments
                  /\ appointments' = appointments
      ]_vars

\* C11 amended: reject-payment is refused with ValidationError, changing
\* neither Payment nor Appointment, exactly when the reason is missing or is
\* shorter than MinReasonLen once its leading and trailing blanks are
\* trimmed; a reason of trimmed length MinReasonLen or more and of at most
\* MaxTextLen characters is accepted on an existing Payment and stored as
\* given; a longer one fails the save and changes nothing.
C11_TrimmedReasonDecides ==
    [][ \A id \in PayIds, reason \in Reasons :
          ( /\ resp'[1].op = "reject"
            /\ RejectPayment(1, id, reason) )
          => IF reason = <<>> \/ Len(Trim(reason)) < MinReasonLen
             THEN /\ resp'[1].outcome = "ValidationError"
                  /\ payments' = payments
                  /\ appointments' = appointments
             ELSE /\ resp'[1].outcome # "ValidationError"
                  /\ (payments[id].exists /\ Len(reason) <= MaxTextLen) =>
                        /\ Succeeded(1, "reject")'
                        /\ payments'[id].rejectedReason = reason
                  /\ (payments[id].exists /\ Len(reason) > MaxTextLen) =>
                        /\ resp'[1].outcome = "ServerError"
                        /\ payments' = payments
                        /\ appointments' = appointments
      ]_vars

\* C11 witness: a reject whose reason is padded with blanks has just been
\* accepted, and the reason is stored with its blanks
C11_Witness ==
    /\ Succeeded(1, "reject")
    /\ payments[resp[1].id].status = "rejected"
    /\ payments[resp[1].id].rejectedReason = <<" ", "f", "a", "k", "e", "d", " ">>

\* C12: a Payment's status is mutated at most once by verify or reject: once
\* it is verified or rejected, no later request changes payment.status.
C12_StatusMutatedOnce ==
    [][ \A p \in PayIds :
          (payments[p].exists /\ payments[p].status \in {"verified", "rejected"})
          => payments'[p].status = payments[p].status
      ]_vars

\* C13: an Appointment whose status is cancelled or completed keeps its
\* status through submit-payment, verify-payment and reject-payment.
C13_TerminalStatusKept ==
    [][ resp'[1].op \in {"submit", "verify", "reject"}
        => \A a \in AppIds :
              (appointments[a].exists /\ appointments[a].status \in {"cancelled", "completed"})
              => appointments'[a].status = appointments[a].status
      ]_vars


(******************** bookings against the calendar ***********************)
\* a create request with this body has just been answered, by either handler
Created(body) ==
    /\ resp'[1].op = "create"
    /\ CreateAppointment(1, body) \/ PostAppointment(1, body)

\* the policies a date can resolve to: the entry of each setting of the day,
\* or the default entry when the day has none
Policies(cal, date) ==
    IF SettingsOn(cal, date) = {} THEN {DefaultPolicy(date)}
    ELSE {Entry(cal[s], date) : s \in SettingsOn(cal, date)}

\* the appointments of a date that are not cancelled
BookedOn(apps, date) ==
    {i \in DOMAIN apps : /\ apps[i].exists
                         /\ apps[i].appointmentDate = date
                         /\ apps[i].status # "cancelled"}

\* C14: a create for a date whose calendar policy is unavailable (a setting
\* with isAvailable = false, or a Saturday or Sunday without a setting) fails
\* with SlotUnavailable and inserts no Appointment.
C14_UnavailableDateRefused ==
    [][ \A body \in CreateBodies :
          ( /\ resp'[1].op = "create"
            /\ \A policy \in Policies(calendar, body.appointmentDate) :
                   ~policy.isAvailable
            /\ Created(body) )
          => /\ resp'[1].outcome = "SlotUnavailable"
             /\ appointments' = appointments
      ]_vars

\* C15: on a date whose setting has isAvailable = true and custom hours, a
\* create for a free slot inside some [start, end) range succeeds, and a
\* create for a time outside every range fails with SlotOutsideHours and
\* inserts no Appointment.
C15_CustomHoursDecide ==
    [][ \A body \in CreateBodies :
          \A setting \in Policies(calendar, body.appointmentDate) :
          ( /\ resp'[1].op = "create"
            /\ Cardinality(SettingsOn(calendar, body.appointmentDate)) = 1
            /\ setting.isAvailable
            /\ setting.customHours # <<>>
            /\ Created(body) )
          => IF WithinCustomHours(setting.customHours, body.appointmentTime)
             THEN SrvSlotHolders(appointments, body) = {} => Succeeded(1, "create")'
             ELSE /\ resp'[1].outcome = "SlotOutsideHours"
                  /\ appointments' = appointments
      ]_vars

\* C16: once the appointments of a date that are not cancelled number the
\* date's maxAppointments (DefaultMaxAppointments without a setting), a
\* create for that date is refused and inserts nothing, so the number never
\* passes maxAppointments by a create.
C16_CapacityCapsCreates ==
    [][ \A body \in CreateBodies :
          ( /\ resp'[1].op = "create"
            /\ \A policy \in Policies(calendar, body.appointmentDate) :
                   Cardinality(BookedOn(appointments, body.appointmentDate))
                       >= policy.maxAppointments
            /\ Created(body) )
          => /\ ~Succeeded(1, "create")'
             /\ appointments' = appointments
      ]_vars

\* C17: a cancelled Appointment does not hold its slot: when the date is
\* available, the time is within its hours, the date is below its capacity
\* and every Appointment at (date, time) is cancelled, a create for that
\* pair succeeds.
C17_CancelledSlotFree ==
    [][ \A body \in CreateBodies :
          LET holders == SrvSlotHolders(appointments, body)
          IN ( /\ resp'[1].op = "create"
               /\ \A policy \in Policies(calendar, body.appointmentDate) :
                      /\ policy.isAvailable
                      /\ policy.customHours = <<>>
                           \/ WithinCustomHours(policy.customHours, body.appointmentTime)
                      /\ Cardinality(BookedOn(appointments, body.appointmentDate))
                             < policy.maxAppointments
               /\ holders # {}
               /\ \A i \in holders : appointments[i].status = "cancelled"
               /\ Created(body) )
             => Succeeded(1, "create")'
      ]_vars

(*************************** calendar reads *******************************)
\* the days of the week of the model that fall on Monday to Friday
Weekdays == {"2024-06-10", "2024-06-11", "2024-06-12", "2024-06-13", "2024-06-14"}

\* slot 1 has just answered a read of this kind with data
Answered(op) == resp[1].op = op /\ resp[1].outcome = "ok"

C19_ClosedDateHasNoSlots ==
    [][ \A query \in SlotQueries :
          ( /\ resp'[1].op = "slots"
            /\ Has(query, "date")
            /\ SettingsOn(calendar, query.date) # {}
            /\ \A s \in SettingsOn(calendar, query.date) : ~calendar[s].isAvailable
            /\ AvailableSlotsRead(1, query) )
          => resp'[1].data = <<>>
      ]_vars

\* C20: for an available date that keeps the default hours, available-slots
\* returns exactly the slots of AllSlots on which the date has no Appointment
\* that is pending, confirmed or completed, in the order of AllSlots.
C20_SlotsMinusBooked ==
    [][ \A query \in SlotQueries :
          ( /\ resp'[1].op = "slots"
            /\ Has(query, "date")
            /\ \A policy \in Policies(calendar, query.date) :
                   policy.isAvailable /\ policy.customHours = <<>>
            /\ AvailableSlotsRead(1, query) )
          => resp'[1].data =
                SelectSeq(AllSlots,
                    LAMBDA slot : \A i \in BookedOn(appointments, query.date) :
                                      appointments[i].appointmentTime # slot)
      ]_vars

\* the slots of AllSlots a setting offers: those inside its custom hours, or
\* all of them when it has none
Candidates(setting) ==
    {slot \in Times : \/ setting.customHours = <<>>
                      \/ WithinCustomHours(setting.customHours, slot)}

\* the elements of a sequence
Range(seq) == {seq[k] : k \in 1..Len(seq)}

\* C21: for a date whose setting has isAvailable = true, a weekend included,
\* available-slots offers only slots inside the setting's custom hours (all
\* default slots when it has none) and offers every such slot on which the
\* date has no Appointment.
C21_SlotsFollowOverride ==
    [][ \A query \in SlotQueries :
          ( /\ resp'[1].op = "slots"
            /\ Has(query, "date")
            /\ Cardinality(SettingsOn(calendar, query.date)) = 1
            /\ \A s \in SettingsOn(calendar, query.date) : calendar[s].isAvailable
            /\ AvailableSlotsRead(1, query) )
          => LET setting == FindSetting(calendar, query.date, "first")
                 taken == {appointments[i].appointmentTime :
                              i \in {j \in AppIds :
                                        /\ appointments[j].exists
                                        /\ appointments[j].appointmentDate = query.date}}
             IN /\ Range(resp'[1].data) \subseteq Candidates(setting)
                /\ Candidates(setting) \ taken \subseteq Range(resp'[1].data)
      ]_vars

\* C22: the availability check for one date and time reports the slot as not
\* available when an Appointment that is not cancelled holds (date, time).
C22_CheckSeesHolder ==
    Answered("check") =>
        ( (\E i \in BookedOn(appointments, resp[1].data.date) :
               appointments[i].appointmentTime = resp[1].data.time)
          => ~resp[1].data.isAvailable )

\* C23: on a date that has a setting, a time is within hours exactly when
\* the setting has no custom hours or the time's minute of the day t
\* satisfies start <= t < end for some range: the start of a range is
\* accepted, its end is refused. The availability check answers available
\* exactly when a setting of the day is available and the time is within its
\* hours.
C23_WithinHoursHalfOpen ==
    Answered("check") =>
        LET answer == resp[1].data
            t == ToMinutes(answer.time)
        IN SettingsOn(calendar, answer.date) # {} =>
              \E s \in SettingsOn(calendar, answer.date) :
                  answer.isAvailable <=>
                     /\ calendar[s].isAvailable
                     /\ \/ calendar[s].customHours = <<>>
                        \/ \E k \in 1..Len(calendar[s].customHours) :
                              /\ ToMinutes(calendar[s].customHours[k].start) <= t
                              /\ t < ToMinutes(calendar[s].customHours[k].end)

\* the time at which Saturday's custom hours end was checked and refused
C23_Witness ==
    /\ Answered("check")
    /\ resp[1].data.date = "2024-06-15"
    /\ resp[1].data.time = "12:00"
    /\ calendar["2024-06-15"].exists
    /\ calendar["2024-06-15"].isAvailable
    /\ calendar["2024-06-15"].customHours = <<[start |-> "09:00", end |-> "12:00"]>>
    /\ ~resp[1].data.isAvailable
    /\ resp[1].data.reason = "Outside custom working hours"

\* C24: the range resolution for a first day not after the last returns one
\* entry per day from the first to the last, both included, in ascending
\* order; the entry of a day that has a setting reports that setting's
\* fields with hasCustomSettings true, the entry of any other day is the
\* default policy.
C24_RangeResolvesEachDay ==
    [][ \A query \in SettingQueries :
          ( /\ resp'[1].op = "settings"
            /\ Has(query, "startDate") /\ Has(query, "endDate")
            /\ DayIndex(query.startDate) <= DayIndex(query.endDate)
            /\ CalendarSettingsRead(1, query) )
          => LET first == DayIndex(query.startDate)
                 last == DayIndex(query.endDate)
                 data == resp'[1].data
             IN /\ resp'[1].outcome = "ok"
                /\ Len(data) = last - first + 1
                /\ \A i \in 1..Len(data) :
                      /\ data[i].date = Week[first + i - 1]
                      /\ data[i] \in Policies(calendar, data[i].date)
      ]_vars

\* C25: the range resolution asked for a first day after the last day is
\* refused with a validation error.
C25_ReversedRangeRefused ==
    [][ \A query \in SettingQueries :
          ( /\ resp'[1].op = "settings"
            /\ Has(query, "startDate") /\ Has(query, "endDate")
            /\ DayIndex(query.startDate) > DayIndex(query.endDate)
            /\ CalendarSettingsRead(1, query) )
          => resp'[1].outcome = "ValidationError"
      ]_vars

\* C26: after any sequence of calendar updates at most one CalendarSettings
\* document exists per calendar day, also when two updates name the same day
\* with different times of the day.
C26_OneSettingPerDay ==
    \A date \in Dates : Cardinality(SettingsOn(calendar, date)) <= 1

(*************************** failing submits ******************************)
\* C27: a submit-payment that fails, whatever the cause (no receipt, no such
\* appointment, a payment already there, a receipt of a wrong type or size,
\* the object store or a database write failing), leaves no new Payment and
\* leaves every Appointment as it was.
C27_FailedSubmitWritesNothing ==
    [][ ( /\ resp'[1].op = "submit"
          /\ resp'[1].outcome # "ok"
          /\ served' = served + 1 )
        => /\ payments' = payments
           /\ appointments' = appointments
      ]_vars

\* C28: when the object store refuses the receipt, submit-payment fails with
\* ReceiptStoreFailure, no Payment was created for the request, and the
\* receipt file written to the uploads directory is gone when the response
\* is sent.
C28_StoreFailureCleansUp ==
    [][ \A s \in Submits :
          ( /\ resp'[1].op = "submit"
            /\ s.file = GoodReceipt /\ ~s.stored
            /\ FindById(appointments, s.body.appointmentId).exists
            /\ PaymentsOf(payments, s.body.appointmentId) = {}
            /\ SubmitPayment(1, s) )
          => /\ resp'[1].outcome = "ReceiptStoreFailure"
             /\ payments' = payments
             /\ ~resp'[1].temp
      ]_vars

(***************************** notifications ******************************)
\* the response and the stored documents of two runs of one request agree
SameOutcome(base, under) ==
    /\ under.resp[1].outcome = base.resp[1].outcome
    /\ under.resp[1].id = base.resp[1].id
    /\ under.appointments = base.appointments
    /\ under.payments = base.payments

\* a notification that was not sent or did not reach the audit log
Lost(entry) == entry.status # "sent" \/ ~entry.logged

\* C29: a notification failure (transport absent, send error, audit-log
\* write error) never changes the outcome of create, submit, verify or
\* reject: every request answers, and leaves in the store, exactly what it
\* does when its notifications go through, and a response that carries a
\* lost notification reports success with the operation's writes in place.
C29_MailFailureChangesNothing ==
    /\ \A k \in 1..Len(resp[1].mail) :
          Lost(resp[1].mail[k]) =>
              /\ resp[1].outcome = "ok"
              /\ Written(World, resp[1].op, resp[1].id)
    /\ CanCreate =>
          \A body \in MailBodies :
             /\ LET base == Run(CtlCreateFind(World, 1, body), 1) IN
                \A mailer \in Mailers :
                   SameOutcome(base, Run(CtlCreateFind(WorldWith(mailer), 1, body), 1))
             /\ \A pick \in Picks :
                   LET base == Run(SrvCreateFindSetting(World, 1, body, pick), 1) IN
                   \A mailer \in Mailers :
                      SameOutcome(base,
                          Run(SrvCreateFindSetting(WorldWith(mailer), 1, body, pick), 1))
    /\ CanSubmit =>
          \A s \in MailSubmits :
             LET base == Run(SubmitFindAppointment(World, 1, s.body, s.file,
                                                   s.stored, s.saved), 1) IN
             \A mailer \in Mailers :
                SameOutcome(base,
                    Run(SubmitFindAppointment(WorldWith(mailer), 1, s.body, s.file,
                                              s.stored, s.saved), 1))
    /\ \A id \in PayIds, notes \in Notes, user \in Users :
          CanVerify(id) =>
             LET base == Run(VerifyFind(World, 1, id, notes, user), 1) IN
             \A mailer \in Mailers :
                SameOutcome(base, Run(VerifyFind(WorldWith(mailer), 1, id, notes, user), 1))
    /\ \A id \in PayIds, reason \in MailReasons :
          LET base == Run(RejectFind(World, 1, id, reason), 1) IN
          \A mailer \in Mailers :
             SameOutcome(base, Run(RejectFind(WorldWith(mailer), 1, id, reason), 1))

\* a verify answered success although neither of its notifications was sent
C29_Witness ==
    /\ Answered("verify")
    /\ Len(resp[1].mail) = 2
    /\ \A k \in 1..2 : resp[1].mail[k].status = "failed"
    /\ Written(World, "verify", resp[1].id)

\* C30: for create, submit, verify and reject a notification is dispatched
\* only after every Appointment and Payment write of the operation is in the
\* store, and an operation that fails dispatches none.
C30_MailAfterWrites ==
    /\ resp[1].outcome # "ok" => resp[1].mail = <<>>
    /\ \A k \in 1..Len(resp[1].mail) : resp[1].mail[k].written

\* a booking through the server route answered success and dispatched its two
\* notifications with the appointment stored
C30_Witness ==
    /\ Answered("create")
    /\ Len(resp[1].mail) = 2
    /\ resp[1].mail[1].type = "appointment_client"
    /\ resp[1].mail[2].type = "appointment_admin"
    /\ resp[1].mail[1].written /\ resp[1].mail[2].written
    /\ FindById(appointments, resp[1].id).exists

\* C31: the response of create, submit, verify and reject never waits for a
\* notification: when no send handed to the mail transport ever settles,
\* every request in flight still answers.
C31_ResponseNeverWaits == (req[1].pc # "idle") ~> (req[1].pc = "idle")

\* a verify answered success while both of its notifications were pending
C31_Witness ==
    /\ Answered("verify")
    /\ ~InFlight(1)
    /\ Len(resp[1].mail) = 2
    /\ \A k \in 1..2 : resp[1].mail[k].returns = "pending"

(****************************** audit log *********************************)
\* the notification attempts of the latest response that went through
\* sendEmailAndLog
HelperCalls == {k \in 1..Len(resp[1].mail) : resp[1].mail[k].returns # "thrown"}

\* the suffix the audit record of an attempt carries for its outcome
SuffixOf(status) ==
    CASE status = "skipped" -> "_skipped"
      [] status = "failed" -> "_failed"
      [] OTHER -> ""

\* the attempt left exactly one audit record, of its type and outcome
OneRecord(entry) ==
    /\ Len(entry.records) = 1
    /\ entry.records[1].type = entry.type
    /\ entry.records[1].suffix = SuffixOf(entry.status)

\* C32 as stated: every notification attempt made through sendEmailAndLog
\* leaves exactly one audit-log record carrying its outcome (_skipped without
\* a transport, the plain type after a send, _failed after a send that threw)
\* and the helper resolves to true or false, never rejecting.
C32_OneRecordPerAttempt ==
    \A k \in HelperCalls :
        /\ OneRecord(resp[1].mail[k])
        /\ resp[1].mail[k].status \in {"skipped", "sent", "failed"}
        /\ resp[1].mail[k].returns \in {"true", "false"}

\* C32 amended: an attempt through sendEmailAndLog whose send has settled
\* leaves exactly one audit-log record carrying its outcome when the audit
\* log takes the write and none when it does not; an attempt whose send has
\* not settled has left none; the helper never rejects, resolving to true
\* after a send and to false after a skipped or a failed one.
C32_OneRecordWhenLogWorks ==
    \A k \in HelperCalls :
        LET entry == resp[1].mail[k] IN
        /\ entry.returns \in {"true", "false", "pending"}
        /\ entry.returns = "true" <=> entry.status = "sent"
        /\ entry.returns = "false" <=> entry.status \in {"skipped", "failed"}
        /\ IF entry.log /\ entry.returns # "pending"
           THEN OneRecord(entry)
           ELSE entry.records = << >>

\* a reject answered while its client notification failed to send and the
\* audit log holds its _failed record
C32_Witness ==
    /\ Answered("reject")
    /\ 1 \in HelperCalls
    /\ resp[1].mail[1].status = "failed"
    /\ resp[1].mail[1].records =
          << [type |-> "payment_rejected_client", suffix |-> "_failed", status |-> "sent"] >>

(************************** references ************************************)
\* C33: in every reachable state each Payment references an Appointment that
\* exists, also after an admin delete of an appointment that has a payment.
C33_PaymentHasAppointment ==
    \A p \in PayIds :
        payments[p].exists => FindById(appointments, payments[p].appointmentId).exists

(****************************** admin routes ******************************)
\* a request with the given Authorization header on one of the routes
\* documented as admin-only
AdminRequest(token) ==
    \/ \E id \in PayIds, notes \in RaceNotes : PutVerify(1, token, id, notes)
    \/ \E id \in PayIds, reason \in MailReasons : PutReject(1, token, id, reason)
    \/ \E body \in CalendarBodies : PutCalendar(1, token, body)
    \/ \E body \in BulkBodies : PostCalendarBulk(1, token, body)
    \/ GetPayments(1, token)
    \/ \E id \in PayIds : GetPayment(1, token, id)

\* C34: the operations documented as admin-only (verify, reject, list and
\* get payments, single and bulk calendar update) change or reveal state only
\* for a request with a valid admin token: a request without one is refused
\* and leaves every document as it was.
C34_AdminRoutesGuarded ==
    [][ \A token \in Tokens \ {"admin"} :
          ( /\ resp'[1].op \in {"verify", "reject", "calendar", "bulk",
                                "payments_list", "payments_get",
                                "payments_verify", "payments_reject",
                                "calendar_update", "calendar_bulk"}
            /\ AdminRequest(token) )
          => /\ resp'[1].outcome = "Unauthorized"
             /\ UNCHANGED <<appointments, payments, calendar>>
      ]_vars

(************************* conflicts by day *******************************)
\* the pending and confirmed appointments of the calendar day of a date at
\* a time
DayHolders(apps, date, time) ==
    {i \in DOMAIN apps : /\ apps[i].exists
                         /\ DayOf(apps[i].appointmentDate) = DayOf(date)
                         /\ apps[i].appointmentTime = time
                         /\ apps[i].status \in {"pending", "confirmed"}}

\* C35: slot conflicts are decided by calendar day: a create for a day and a
\* time that a pending or confirmed appointment of that day holds is refused
\* even when the two dates differ in their time of day, and the slots that
\* available-slots leaves out of a weekday are exactly those a create for
\* that date is refused for.
C35_ConflictsByDay ==
    [][ /\ \A body \in DayBodies :
             ( /\ resp'[1].op = "create"
               /\ DayHolders(appointments, body.appointmentDate, body.appointmentTime) # {}
               /\ CreateAppointment(1, body) \/ PostAppointment(1, body) )
             => resp'[1].outcome = "SlotTaken"
        /\ \A query \in DayQueries :
             ( /\ resp'[1].op = "slots"
               /\ AvailableSlotsRead(1, query) )
             => \A slot \in Times :
                   slot \notin Range(resp'[1].data)
                      <=> CtlSlotHolders(appointments,
                                         [appointmentDate |-> query.date,
                                          appointmentTime |-> slot]) # {}
      ]_vars

(********************** verify against reject *****************************)
\* C36: a verify and a reject of the same payment that ran concurrently end
\* in an agreeing pair: payment verified with its appointment confirmed and
\* verified, or payment rejected with its appointment cancelled and failed.
C36_VerifyRejectAgree ==
    \A r \in Reqs, q \in Reqs :
        ( /\ Succeeded(r, "verify") /\ Succeeded(q, "reject")
          /\ resp[r].conc /\ resp[q].conc
          /\ resp[r].id = resp[q].id
          /\ ~InFlight(1) /\ ~InFlight(2)
          /\ FindById(appointments, payments[resp[r].id].appointmentId).exists )
        => LET payment == payments[resp[r].id]
               appointment == appointments[payment.appointmentId]
           IN \/ /\ payment.status = "verified"
                 /\ appointment.status = "confirmed"
                 /\ appointment.paymentStatus = "verified"
              \/ /\ payment.status = "rejected"
                 /\ appointment.status = "cancelled"
                 /\ appointment.paymentStatus = "failed"

(************************* two records, one step **************************)
\* the payment exists and the appointment it references is gone
Orphan(id) ==
    /\ FindById(payments, id).exists
    /\ ~FindById(appointments, payments[id].appointmentId).exists

\* C37: submit, verify and reject are all-or-nothing across their two
\* records: when the appointment write after the payment write fails, or the
\* appointment is absent, the Payment is neither created nor changed and the
\* operation does not report success.
C37_BothRecordsOrNone ==
    [][ /\ \A s \in Submits :
             ( /\ resp'[1].op = "submit"
               /\ ~s.saved
               /\ SubmitPayment(1, s) )
             => payments' = payments /\ resp'[1].outcome # "ok"
        /\ \A id \in PayIds, notes \in Notes, user \in Users :
             ( /\ resp'[1].op = "verify"
               /\ Orphan(id)
               /\ VerifyPayment(1, id, notes, user) )
             => payments' = payments /\ resp'[1].outcome # "ok"
        /\ \A id \in PayIds, reason \in Reasons :
             ( /\ resp'[1].op = "reject"
               /\ Orphan(id)
               /\ RejectPayment(1, id, reason) )
             => payments' = payments /\ resp'[1].outcome # "ok"
      ]_vars

(********************** slots offered, slots taken ************************)
\* C38: available-slots and create agree when nothing happens between the
\* two calls: a create for a date and a canonical slot succeeds exactly when
\* available-slots, asked in the state the create starts from, returns the
\* slot for that date.
C38_SlotsAgreeWithCreate ==
    [][ \A body \in CreateBodies :
          Created(body)
          => ( resp'[1].outcome = "ok"
                 <=> body.appointmentTime
                        \in Range(AvailableSlots(appointments, body.appointmentDate)) )
      ]_vars

(************************ calendar updates ********************************)
\* the stored setting a request entry leaves for its date: what the entry
\* carries, and for what it omits true, no reason, no custom hours, eight
Replaced(setting, update) ==
    /\ setting.exists
    /\ setting.isAvailable = (IF Has(update, "isAvailable") THEN update.isAvailable ELSE TRUE)
    /\ setting.reason = (IF Has(update, "reason") THEN update.reason ELSE "")
    /\ setting.customHours = (IF Has(update, "customHours") THEN update.customHours ELSE << >>)
    /\ setting.maxAppointments =
          (IF Has(update, "maxAppointments") THEN update.maxAppointments ELSE 8)

\* the last entry of a bulk update that names a date
LastFor(updates, date) ==
    LET ks == {k \in 1..Len(updates) : Has(updates[k], "date") /\ updates[k].date = date}
    IN updates[CHOOSE k \in ks : \A j \in ks : j <= k]

\* C39: a calendar update, single or bulk, replaces the whole record of its
\* date: a field the request omits is reset to its default (isAvailable true,
\* reason empty, customHours empty, maxAppointments 8) whatever was stored,
\* so an update without isAvailable opens a date stored as unavailable.
C39_UpdateReplacesRecord ==
    [][ /\ \A body \in CalendarBodies :
             ( /\ resp'[1].op = "calendar"
               /\ resp'[1].outcome = "ok"
               /\ AdminCalendar(1, body) )
             => Replaced(calendar'[body.date], body)
        /\ \A body \in BulkBodies :
             ( /\ resp'[1].op = "bulk"
               /\ resp'[1].outcome = "ok"
               /\ BulkCalendar(1, body) )
             => \A k \in 1..Len(body.updates) :
                   Has(body.updates[k], "date")
                   => Replaced(calendar'[body.updates[k].date],
                               LastFor(body.updates, body.updates[k].date))
      ]_vars

\* a bulk update closed Monday and then, with an entry that did not say
\* whether the day is available, opened it again
C39_Witness ==
    /\ resp[1].op = "bulk"
    /\ resp[1].outcome = "ok"
    /\ calendar["2024-06-10"].exists
    /\ calendar["2024-06-10"].isAvailable
    /\ calendar["2024-06-10"].reason = "Open again"

\* the world after the single update was applied to each entry in list order
RECURSIVE EachSingle(_, _)
EachSingle(w, updates) ==
    IF updates = << >> THEN w
    ELSE EachSingle(UpdateCalendarSettings(w, 1, Head(updates)), Tail(updates))

\* the entries the single update accepts
SingleAccepts(updates) ==
    {k \in 1..Len(updates) :
        UpdateCalendarSettings(World, 1, updates[k]).resp[1].outcome = "ok"}

\* C40: a bulk calendar update leaves the store as the single update applied
\* to each of its entries in list order does: it stores and refuses the same
\* entries (custom hours lacking a start or an end included), a refused entry
\* neither stops the later ones nor undoes the earlier ones, and totalUpdated
\* is the number of entries stored.
C40_BulkIsEachSingle ==
    [][ \A body \in BulkBodies :
          ( /\ resp'[1].op = "bulk"
            /\ resp'[1].outcome = "ok"
            /\ BulkCalendar(1, body) )
          => /\ calendar' = EachSingle(World, body.updates).calendar
             /\ resp'[1].data.totalUpdated = Cardinality(SingleAccepts(body.updates))
      ]_vars
====
